---- MODULE Spec2Model ----
(***************************************************************************)
(* Model of the data/procedure layer of the Bible reading app: the verse   *)
(* rotation procedure get_daily_verse over bible_verses / verse_history,   *)
(* and the role-based access control layer (roles, user_roles,             *)
(* role_transitions, user_invitations, the auth_users_view directory       *)
(* projection and the procedures has_admin_access, has_role, get_users,    *)
(* invite_users, bulk_create_users, verify_user_email).                    *)
(***************************************************************************)
EXTENDS Integers, Sequences, FiniteSets, Bags, TLC

\* ------------------------------------------------------------------------
\* Bounds of the model
\* ------------------------------------------------------------------------
MaxVerses == 3
NumSessions == 2
MaxCalls == 4
MaxTime == 7
MaxRoleRows == 2
MaxInvitations == 2
MaxTransitions == 2
MaxBatch == 2
MaxSaves == 2

\* user_invitations.expires_at DEFAULT (now() + interval '7 days'), in days.
InvitationTTL == 7

NULL == "NULL"

\* Identifiers of the rows that may be seeded into bible_verses.
AllVerses == {"v1", "v2", "v3", "v4", "v5"}

VersePool == {v \in AllVerses :
                 \E i \in 1..MaxVerses : v = <<"v1", "v2", "v3", "v4", "v5">>[i]}

\* Identities known to the identity provider (auth.users.id).
UserIds == {"u1", "u2"}

Sessions == 1..NumSessions

VARIABLES
  bible_verses,    \* set of verse ids seeded into bible_verses
  verse_history,   \* [user, verse] -> number of committed rows (user_id, verse_id)
  uid,             \* session -> auth.uid() of the call in flight
  pc,              \* session -> position inside get_daily_verse
  selected,        \* session -> selected_verse_id
  snap,            \* session -> rows seen by the DELETE statement's snapshot
  del,             \* session -> rows deleted by the call, not yet committed
  ret,             \* session -> outcome of the last call
  shown,           \* user -> verses returned since the user's last reset
  served,          \* user -> number of successful calls so far
  now,             \* now(), in days
  variable_conflict, \* the server's plpgsql.variable_conflict setting
  auth_users,      \* auth.users: id -> [email, meta]
  user_roles,      \* bag of user_roles rows
  role_transitions, \* role_transitions rows, in insertion order
  user_invitations, \* set of user_invitations rows
  auth_users_view, \* rows stored in the materialized view auth_users_view
  result,          \* outcome of the last statement or procedure call
  verify_call,     \* session -> verify_user_email call in flight
  formData,        \* chapter editor: the form
  chapter_row,     \* chapter editor: the chapters row in the database
  hasUnsavedChanges, \* chapter editor: the dirty flag
  saving,          \* chapter editor: the saving flag
  error,           \* chapter editor: the error shown
  saves            \* chapter editor: save requests in flight

verseVars == <<bible_verses, verse_history, uid, pc, selected, snap, del, ret,
               shown, served>>

rbacVars == <<now, variable_conflict, auth_users, user_roles, role_transitions,
              user_invitations, auth_users_view, result>>

verifyVars == <<verify_call>>

editorVars == <<formData, chapter_row, hasUnsavedChanges, saving, error, saves>>

\* What a statement of the access-control layer leaves alone, and what a
\* statement of get_daily_verse leaves alone.
nonRbacVars == <<verseVars, verifyVars, editorVars>>

nonVerseVars == <<rbacVars, verifyVars, editorVars>>

vars == <<verseVars, rbacVars, verifyVars, editorVars>>

\* ------------------------------------------------------------------------
\* bible_verses / verse_history
\* ------------------------------------------------------------------------

\* verse_text column of a bible_verses row ("<text> | <reference>").
verse_text(v) == <<v, "|", "ref">>

\* Rows of verse_history committed for user u.
HistoryRows(u) == {v \in AllVerses : verse_history[u, v] > 0}

\* Number of committed rows of user u.
RECURSIVE SumCounts(_, _)
SumCounts(u, S) ==
  IF S = {} THEN 0
  ELSE LET v == CHOOSE x \in S : TRUE
       IN verse_history[u, v] + SumCounts(u, S \ {v})

HistorySize(u) == SumCounts(u, AllVerses)

\* First SELECT of get_daily_verse: verses with no history row for the caller.
UnshownVerses(u) ==
  {v \in bible_verses : verse_history[u, v] = 0}

\* Rows whose row lock is held by another call in flight (deleted, uncommitted).
LockedByOthers(c) ==
  UNION {del[d] : d \in Sessions \ {c}}

\* UNIQUE(user_id, verse_id) dropped: an insert never collides.
UniqueViolation_Dropped(c, u, v) == FALSE

\* UNIQUE(user_id, verse_id): does inserting (u, v) collide for call c?
UniqueViolation(c, u, v) ==
  verse_history[u, v] > 0 /\ <<u, v>> \notin del[c]

\* The reset branch without its DELETE.
DeletedRows_None(c) == {}

\* DELETE FROM verse_history WHERE user_id = current_user_id: the rows of the
\* statement's snapshot that still exist when it gets their locks.
DeletedRows(c) == {r \in snap[c] : verse_history[r[1], r[2]] > 0}

\* The INSERT of the selected verse left out: only the deletes are applied.
HistoryAfterInsert_NoRecord(c, u, v) ==
  [k \in UserIds \X AllVerses |->
     IF k \in del[c] THEN 0 ELSE verse_history[k]]

\* verse_history once call c commits: its deleted rows are gone and the row
\* (u, v) is added.
HistoryAfterInsert(c, u, v) ==
  [k \in UserIds \X AllVerses |->
     IF k = <<u, v>> THEN (IF k \in del[c] THEN 0 ELSE verse_history[k]) + 1
     ELSE IF k \in del[c] THEN 0
     ELSE verse_history[k]]

DuplicateKey == "duplicate key value violates unique constraint"

NoRet == [status |-> "none", message |-> NULL, verse_id |-> NULL,
          verse_text |-> NULL, reset |-> FALSE, user |-> NULL]

\* An exceptional condition answered with a null row instead of an exception.
ErrRet_NullRow(u, msg, r) ==
  [status |-> "ok", message |-> NULL, verse_id |-> NULL,
   verse_text |-> NULL, reset |-> r, user |-> u]

ErrRet(u, msg, r) == [status |-> "error", message |-> msg, verse_id |-> NULL,
                      verse_text |-> NULL, reset |-> r, user |-> u]

OkRet(u, v, r) == [status |-> "ok", message |-> NULL, verse_id |-> v,
                   verse_text |-> verse_text(v), reset |-> r, user |-> u]

\* get_daily_verse, lines 29-50: auth check and the first SELECT.
GetDailyVerse_Begin(c, u) ==
  /\ pc[c] = "idle"
  /\ u /= NULL => served[u] < MaxCalls
  /\ uid' = [uid EXCEPT ![c] = u]
  /\ IF u = NULL
     THEN /\ ret' = [ret EXCEPT ![c] = ErrRet(NULL, "User not authenticated", FALSE)]
          /\ pc' = [pc EXCEPT ![c] = "done"]
          /\ selected' = [selected EXCEPT ![c] = NULL]
     ELSE /\ ret' = [ret EXCEPT ![c] = NoRet]
          /\ IF UnshownVerses(u) /= {}
             THEN \E v \in UnshownVerses(u) :
                    /\ selected' = [selected EXCEPT ![c] = v]
                    /\ pc' = [pc EXCEPT ![c] = "insert"]
             ELSE /\ selected' = [selected EXCEPT ![c] = NULL]
                  /\ pc' = [pc EXCEPT ![c] = "reset"]
  /\ UNCHANGED <<bible_verses, verse_history, snap, del, shown, served>>
  /\ UNCHANGED nonVerseVars

\* The DELETE of the function's first version, WHERE user_id = user_id with
\* both names read as the column: the rows of every user.
DeleteTargets_AllUsers(u) ==
  UNION {{<<w, v>> : v \in HistoryRows(w)} : w \in UserIds}

\* Rows matched by DELETE FROM verse_history WHERE verse_history.user_id =
\* current_user_id.
DeleteTargets(u) == {<<u, v>> : v \in HistoryRows(u)}

\* get_daily_verse, lines 55-56: the DELETE statement starts and takes its
\* snapshot of the caller's rows.
GetDailyVerse_DeleteStart(c) ==
  /\ pc[c] = "reset"
  /\ snap' = [snap EXCEPT ![c] = DeleteTargets(uid[c])]
  /\ pc' = [pc EXCEPT ![c] = "deleting"]
  /\ UNCHANGED <<bible_verses, verse_history, uid, selected, del, ret, shown,
                 served>>
  /\ UNCHANGED nonVerseVars

\* get_daily_verse, lines 55-73: the DELETE completes once no other call holds
\* a lock on a row it targets (rows deleted meanwhile are skipped), then the
\* second SELECT picks any verse; no verse at all raises.
GetDailyVerse_Reset(c) ==
  /\ pc[c] = "deleting"
  /\ snap[c] \cap LockedByOthers(c) = {}
  /\ LET gone == DeletedRows(c)
     IN IF bible_verses = {}
        THEN /\ ret' = [ret EXCEPT ![c] = ErrRet(uid[c], "No verses available", TRUE)]
             /\ pc' = [pc EXCEPT ![c] = "done"]
             /\ del' = [del EXCEPT ![c] = {}]
             /\ selected' = [selected EXCEPT ![c] = NULL]
        ELSE /\ \E v \in bible_verses :
                  selected' = [selected EXCEPT ![c] = v]
             /\ del' = [del EXCEPT ![c] = gone]
             /\ pc' = [pc EXCEPT ![c] = "insert"]
             /\ ret' = [ret EXCEPT ![c] = [ret[c] EXCEPT !.reset = TRUE]]
  /\ snap' = [snap EXCEPT ![c] = {}]
  /\ UNCHANGED <<bible_verses, verse_history, uid, shown, served>>
  /\ UNCHANGED nonVerseVars

\* get_daily_verse, lines 75-91: INSERT INTO verse_history, RETURN QUERY and
\* commit; a unique violation is re-raised and the call's DELETE rolls back.
GetDailyVerse_Insert(c) ==
  /\ pc[c] = "insert"
  /\ <<uid[c], selected[c]>> \notin LockedByOthers(c)
  /\ LET u == uid[c]
         v == selected[c]
     IN IF UniqueViolation(c, u, v)
        THEN /\ ret' = [ret EXCEPT ![c] =
                   ErrRet(u, DuplicateKey, ret[c].reset)]
             /\ UNCHANGED <<verse_history, shown, served>>
        ELSE /\ verse_history' = HistoryAfterInsert(c, u, v)
             /\ ret' = [ret EXCEPT ![c] = OkRet(u, v, ret[c].reset)]
             /\ shown' = [shown EXCEPT ![u] =
                            IF ret[c].reset THEN {v} ELSE @ \cup {v}]
             /\ served' = [served EXCEPT ![u] = @ + 1]
  /\ del' = [del EXCEPT ![c] = {}]
  /\ pc' = [pc EXCEPT ![c] = "done"]
  /\ UNCHANGED <<bible_verses, uid, selected, snap>>
  /\ UNCHANGED nonVerseVars

\* The caller has received the outcome; the session ends and may issue
\* another call.
GetDailyVerse_Return(c) ==
  /\ pc[c] = "done"
  /\ pc' = [pc EXCEPT ![c] = "idle"]
  /\ uid' = [uid EXCEPT ![c] = NULL]
  /\ selected' = [selected EXCEPT ![c] = NULL]
  /\ ret' = [ret EXCEPT ![c] = NoRet]
  /\ UNCHANGED <<bible_verses, verse_history, snap, del, shown, served>>
  /\ UNCHANGED nonVerseVars

\* getDailyVerse() of the client: the error of the rpc is thrown inside the
\* try block and caught by its own catch, which returns null; a row without
\* a verse text gives null as well.
getDailyVerse(r) ==
  IF r.status = "error" THEN NULL
  ELSE IF r.verse_id = NULL THEN NULL
  ELSE r.verse_text

\* ------------------------------------------------------------------------
\* Identities, roles, role assignments
\* ------------------------------------------------------------------------

\* A timestamp column holding NULL.
NoTime == 0 - 1

\* auth.uid() of a caller: an identity, or NULL without a session.
Callers == UserIds \cup {NULL}

\* Rows seeded into roles (ids stand for the unique names).
Roles == {"admin", "staff", "user", "guest"}

\* The identity the admin-assignment migration is written for.
SamEmail == "sam@reachloud.com"

\* Email texts used as inputs, each with its characters.
EmailPool == {SamEmail, "u2@x.com", "new@x.com", "not-an-email"}

EmailText(e) ==
  CASE e = SamEmail ->
         <<"s","a","m","@","r","e","a","c","h","l","o","u","d",".","c","o","m">>
    [] e = "u2@x.com" -> <<"u","2","@","x",".","c","o","m">>
    [] e = "new@x.com" -> <<"n","e","w","@","x",".","c","o","m">>
    [] e = "not-an-email" ->
         <<"n","o","t","-","a","n","-","e","m","a","i","l">>

\* [^\s@]+ : a non-empty run without whitespace and without "@".
NoSpaceNoAt(t, from, to) ==
  /\ from <= to
  /\ \A k \in from..to : t[k] \notin {" ", "@"}

\* emailRegex = /^[^\s@]+@[^\s@]+\.[^\s@]+$/ applied to email e.
emailRegex(e) ==
  LET t == EmailText(e)
  IN \E i, j \in 1..Len(t) :
       /\ i < j
       /\ t[i] = "@"
       /\ t[j] = "."
       /\ NoSpaceNoAt(t, 1, i - 1)
       /\ NoSpaceNoAt(t, i + 1, j - 1)
       /\ NoSpaceNoAt(t, j + 1, Len(t))

\* validateEmails: every email of the list matches emailRegex.
validateEmails(emails) ==
  \A k \in 1..Len(emails) : emailRegex(emails[k])

\* Rows of user_roles as a set.
UserRoleRows == BagToSet(user_roles)

\* Number of user_roles rows for the pair (user_id, role_id).
RECURSIVE CountCopies(_, _)
CountCopies(B, S) ==
  IF S = {} THEN 0
  ELSE LET x == CHOOSE y \in S : TRUE
       IN CopiesIn(x, B) + CountCopies(B, S \ {x})

PairCount(B, u, r) ==
  CountCopies(B, {x \in BagToSet(B) : x.user_id = u /\ x.role_id = r})

\* A user_roles row with the column defaults of the table.
UserRoleRow(u, r, a, e) ==
  [user_id |-> u, role_id |-> r, is_active |-> a, expires_at |-> e]

\* has_role(user_id, role_name)
has_role(user_id, role_name) ==
  \E ur \in UserRoleRows :
    /\ ur.user_id = user_id
    /\ ur.role_id = role_name
    /\ ur.is_active = TRUE
    /\ (ur.expires_at = NoTime \/ ur.expires_at > now)

\* has_admin_access() that lets every signed-in caller through.
has_admin_access_Authenticated(caller) == caller /= NULL

\* has_admin_access(), evaluated with auth.uid() = caller.
has_admin_access(caller) ==
  \E ur \in UserRoleRows :
    /\ ur.user_id = caller
    /\ ur.role_id = "admin"
    /\ ur.is_active = TRUE

\* UNIQUE(user_id, role_id) dropped.
UserRolesUniqueViolation_Dropped(B, row) == FALSE

\* UNIQUE(user_id, role_id): does adding row to the rows B collide?
UserRolesUniqueViolation(B, row) ==
  \E x \in BagToSet(B) :
    x.user_id = row.user_id /\ x.role_id = row.role_id

\* ------------------------------------------------------------------------
\* The directory projection auth_users_view
\* ------------------------------------------------------------------------

\* The query as the migration "User Management System Enhancement" wrote it:
\* the join rows are filtered by WHERE ur.is_active = true OR ur.is_active IS
\* NULL and the role names are aggregated without array_remove.
ViewQuery_Enhancement(users, uroles, invs) ==
  {[id |-> au,
    email |-> users[au].email,
    user_metadata |-> users[au].meta,
    is_active |-> IF users[au].meta.is_active = "false" THEN FALSE ELSE TRUE,
    roles |-> IF \E x \in BagToSet(uroles) : x.user_id = au
              THEN {ur.role_id : ur \in {x \in BagToSet(uroles) :
                                           x.user_id = au /\ x.is_active = TRUE}}
              ELSE {NULL},
    has_pending_invitation |->
      \E ui \in invs : ui.email = users[au].email /\ ui.status = "pending"]
   : au \in {u \in UserIds :
               \/ \A x \in BagToSet(uroles) : x.user_id /= u
               \/ \E x \in BagToSet(uroles) :
                    x.user_id = u /\ x.is_active = TRUE}}

\* The query of the materialized view over the given base tables.
ViewQuery(users, uroles, invs) ==
  {[id |-> au,
    email |-> users[au].email,
    user_metadata |-> users[au].meta,
    is_active |-> IF users[au].meta.is_active = "false" THEN FALSE ELSE TRUE,
    roles |-> {ur.role_id : ur \in {x \in BagToSet(uroles) :
                                      x.user_id = au /\ x.is_active = TRUE}},
    has_pending_invitation |->
      \E ui \in invs : ui.email = users[au].email /\ ui.status = "pending"]
   : au \in UserIds}

\* The rows a rebuild of the projection stores in the current state.
FreshView == ViewQuery(auth_users, user_roles, user_invitations)

\* refresh_auth_users_view(): REFRESH MATERIALIZED VIEW, a failure is caught
\* and leaves the stored rows as they were.
Refreshed(ok, view, users, uroles, invs) ==
  IF ok THEN ViewQuery(users, uroles, invs) ELSE view

\* Outcome of a statement or procedure call.
Outcome(op, status, message) ==
  [op |-> op, status |-> status, message |-> message, args |-> <<>>,
   rows |-> <<>>, view_rows |-> {}, value |-> FALSE]

\* The step is a call of op: every operation leaves its outcome in result,
\* and only the passing of time leaves result alone.
Called(op) == result'.op = op /\ now' = now

AccessDenied == "Access denied"
RlsViolation == "new row violates row-level security policy"
NotNullEmail == "null value in column email violates not-null constraint"
AmbiguousEmail == "column reference email is ambiguous"
RefreshFailed == "refresh failed"

\* get_users() that answers a non-admin with no rows instead of raising.
get_users_result_Silent(caller) ==
  IF has_admin_access(caller)
  THEN [Outcome("get_users", "ok", NULL)
          EXCEPT !.view_rows = auth_users_view]
  ELSE Outcome("get_users", "ok", NULL)

\* get_users(): the stored rows of the view for an admin, an exception
\* otherwise.
get_users_result(caller) ==
  IF has_admin_access(caller)
  THEN [Outcome("get_users", "ok", NULL)
          EXCEPT !.view_rows = auth_users_view]
  ELSE Outcome("get_users", "error", AccessDenied)

get_users(caller) ==
  /\ result' = get_users_result(caller)
  /\ UNCHANGED <<now, variable_conflict, auth_users, user_roles,
                 role_transitions, user_invitations, auth_users_view>>
  /\ UNCHANGED nonRbacVars

\* Time passes: the clock is observed once per lifetime of an invitation.
Tick ==
  /\ now + InvitationTTL <= MaxTime
  /\ now' = now + InvitationTTL
  /\ UNCHANGED <<variable_conflict, auth_users, user_roles, role_transitions,
                 user_invitations, auth_users_view, result>>
  /\ UNCHANGED nonRbacVars

\* ------------------------------------------------------------------------
\* Direct statements on user_roles under row-level security
\* ------------------------------------------------------------------------

\* Values an administrator may write into (is_active, expires_at): active
\* for good, active until day 1, inactive.
AssignmentInputs == {<<TRUE, NoTime>>, <<TRUE, 1>>, <<FALSE, NoTime>>}

\* Roles an administrator assigns by direct statements.
RoleInputs == {"admin", "user"}

\* Outcome of INSERT INTO user_roles (user_id, role_id, ...) by caller.
InsertOutcome(caller, u, r, status, message) ==
  [Outcome("insert_user_role", status, message)
     EXCEPT !.args = <<caller, u, r>>]

\* INSERT INTO user_roles by caller: policy "Admins can manage user roles"
\* (WITH CHECK has_role(auth.uid(), 'admin')), then UNIQUE(user_id, role_id),
\* then the statement trigger refreshes the view.
UserRoles_Insert(caller, u, r, a, e, ok) ==
  LET row == UserRoleRow(u, r, a, e)
  IN /\ IF ~has_role(caller, "admin")
        THEN /\ result' = InsertOutcome(caller, u, r, "error", RlsViolation)
             /\ UNCHANGED <<user_roles, auth_users_view>>
        ELSE IF UserRolesUniqueViolation(user_roles, row)
        THEN /\ result' = InsertOutcome(caller, u, r, "error", DuplicateKey)
             /\ UNCHANGED <<user_roles, auth_users_view>>
        ELSE /\ BagCardinality(user_roles) < MaxRoleRows
             /\ user_roles' = user_roles (+) SetToBag({row})
             /\ auth_users_view' =
                  Refreshed(ok, auth_users_view, auth_users, user_roles',
                            user_invitations)
             /\ result' = InsertOutcome(caller, u, r, "ok", NULL)
     /\ UNCHANGED <<now, variable_conflict, auth_users, role_transitions,
                    user_invitations>>
     /\ UNCHANGED nonRbacVars

\* UPDATE user_roles SET is_active, expires_at WHERE user_id, role_id: only
\* rows the policy lets the caller see are updated; the statement trigger
\* fires even when no row is.
UserRoles_Update(caller, u, r, a, e, ok) ==
  LET hit == IF has_role(caller, "admin")
             THEN {x \in UserRoleRows : x.user_id = u /\ x.role_id = r}
             ELSE {}
      kept == [x \in UserRoleRows \ hit |-> CopiesIn(x, user_roles)]
      new == [x \in {UserRoleRow(u, r, a, e)} |->
                CountCopies(user_roles, hit)]
  IN /\ user_roles' = IF hit = {} THEN user_roles ELSE kept (+) new
     /\ auth_users_view' =
          Refreshed(ok, auth_users_view, auth_users, user_roles',
                    user_invitations)
     /\ result' = Outcome("update_user_role", "ok", NULL)
     /\ UNCHANGED <<now, variable_conflict, auth_users, role_transitions,
                    user_invitations>>
     /\ UNCHANGED nonRbacVars

\* DELETE FROM user_roles WHERE user_id, role_id, under the same policy.
UserRoles_Delete(caller, u, r, ok) ==
  LET hit == IF has_role(caller, "admin")
             THEN {x \in UserRoleRows : x.user_id = u /\ x.role_id = r}
             ELSE {}
  IN /\ user_roles' = [x \in UserRoleRows \ hit |-> CopiesIn(x, user_roles)]
     /\ auth_users_view' =
          Refreshed(ok, auth_users_view, auth_users, user_roles',
                    user_invitations)
     /\ result' = Outcome("delete_user_role", "ok", NULL)
     /\ UNCHANGED <<now, variable_conflict, auth_users, role_transitions,
                    user_invitations>>
     /\ UNCHANGED nonRbacVars

\* ------------------------------------------------------------------------
\* Role assignment with audit trail ("Assign Admin Role to User")
\* ------------------------------------------------------------------------

\* SELECT id FROM auth.users WHERE email = e (NULL when there is none).
UserIdByEmail(e) ==
  IF \E u \in UserIds : auth_users[u].email = e
  THEN CHOOSE u \in UserIds : auth_users[u].email = e
  ELSE NULL

\* The existing assignments deactivated instead of removed.
AssignRole_Cleared_Deactivate(u) ==
  LET mine == {y \in UserRoleRows : y.user_id = u}
      off == {[y EXCEPT !.is_active = FALSE] : y \in mine}
  IN [x \in (UserRoleRows \ mine) \cup off |->
        IF x \in off THEN 1 ELSE CopiesIn(x, user_roles)]

\* user_roles after the block's first statement as written:
\* DELETE FROM user_roles WHERE user_id = v_user_id.
AssignRole_Cleared(u) ==
  [x \in {y \in UserRoleRows : y.user_id /= u} |-> CopiesIn(x, user_roles)]

\* The role_transitions row the block appends: old_role_id is not set.
AssignRole_Transition(u, r) ==
  [user_id |-> u, old_role_id |-> NULL, new_role_id |-> r, changed_by |-> u,
   reason |-> "Initial admin role assignment"]

\* The DO block: removes the user's assignments, inserts the active admin
\* assignment (under UNIQUE(user_id, role_id)) and appends a role_transitions
\* row; each user_roles statement fires the refresh trigger.
AssignAdminRole(ok1, ok2) ==
  LET v_user_id == UserIdByEmail(SamEmail)
      v_admin_role_id == "admin"
      cleared == AssignRole_Cleared(v_user_id)
      row == UserRoleRow(v_user_id, v_admin_role_id, TRUE, NoTime)
      view1 == Refreshed(ok1, auth_users_view, auth_users, cleared,
                         user_invitations)
  IN /\ Len(role_transitions) < MaxTransitions
     /\ IF v_user_id = NULL
        THEN /\ result' = Outcome("assign_admin_role", "error",
                                  "User not found")
             /\ UNCHANGED <<user_roles, role_transitions, auth_users_view>>
        ELSE IF UserRolesUniqueViolation(cleared, row)
        THEN /\ result' = Outcome("assign_admin_role", "error", DuplicateKey)
             /\ UNCHANGED <<user_roles, role_transitions, auth_users_view>>
        ELSE /\ user_roles' = cleared (+) SetToBag({row})
             /\ role_transitions' =
                  Append(role_transitions,
                         AssignRole_Transition(v_user_id, v_admin_role_id))
             /\ auth_users_view' =
                  Refreshed(ok2, view1, auth_users, user_roles',
                            user_invitations)
             /\ result' = Outcome("assign_admin_role", "ok", NULL)
     /\ UNCHANGED <<now, variable_conflict, auth_users, user_invitations>>
     /\ UNCHANGED nonRbacVars

\* ------------------------------------------------------------------------
\* Invitations: invite_users, bulk_create_users, verify_user_email
\* ------------------------------------------------------------------------

\* Role names an administrator can put into an invitation (AVAILABLE_ROLES
\* of the admin screens, and the seeded names).
RoleListInputs ==
  {<<"user">>, <<"admin">>, <<"user", "editor">>, <<"staff", "staff">>}

\* Email lists passed to the batch procedures; an array element may be NULL.
EmailListInputs ==
  UNION {[1..n -> (EmailPool \ {SamEmail}) \cup {NULL}] : n \in 1..MaxBatch}

\* encode(gen_random_bytes(32), 'hex'): a token no invitation holds yet.
Tokens == 1..(MaxInvitations + MaxBatch)

NewToken(invs) ==
  CHOOSE t \in Tokens :
    /\ t \notin {ui.invitation_token : ui \in invs}
    /\ \A t2 \in Tokens :
         t2 \notin {ui.invitation_token : ui \in invs} => t <= t2

\* The row INSERT INTO user_invitations creates, with the column defaults.
NewInvitation(invs, email, caller, roles) ==
  [email |-> email, invited_by |-> caller, roles |-> roles,
   status |-> "pending", invitation_token |-> NewToken(invs),
   expires_at |-> now + InvitationTTL]

\* The FOREACH loop of invite_users: an INSERT that fails raises out of the
\* function.
RECURSIVE InviteLoop(_, _, _, _)
InviteLoop(invs, emails, caller, roles) ==
  IF emails = <<>>
  THEN [ok |-> TRUE, invs |-> invs, rows |-> <<>>, message |-> NULL]
  ELSE LET v_email == Head(emails)
       IN IF v_email = NULL
          THEN [ok |-> FALSE, invs |-> invs, rows |-> <<>>,
                message |-> NotNullEmail]
          ELSE LET v_invitation == NewInvitation(invs, v_email, caller, roles)
                   rest == InviteLoop(invs \cup {v_invitation}, Tail(emails),
                                      caller, roles)
               IN [ok |-> rest.ok, invs |-> rest.invs,
                   rows |-> <<v_invitation>> \o rest.rows,
                   message |-> rest.message]

\* Outcome of a batch procedure called by caller.
BatchOutcome(op, caller, status, message) ==
  [Outcome(op, status, message) EXCEPT !.args = <<caller>>]

\* invite_users(emails, roles)
invite_users(caller, emails, roles) ==
  /\ Cardinality(user_invitations) + Len(emails) <= MaxInvitations
  /\ IF ~has_admin_access(caller)
     THEN /\ result' = BatchOutcome("invite_users", caller, "error",
                                    AccessDenied)
          /\ UNCHANGED user_invitations
     ELSE LET loop == InviteLoop(user_invitations, emails, caller, roles)
          IN IF loop.ok
             THEN /\ user_invitations' = loop.invs
                  /\ result' =
                       [BatchOutcome("invite_users", caller, "ok", NULL)
                          EXCEPT !.rows = loop.rows]
             ELSE /\ UNCHANGED user_invitations
                  /\ result' = BatchOutcome("invite_users", caller, "error",
                                            loop.message)
  /\ UNCHANGED <<now, variable_conflict, auth_users, user_roles,
                 role_transitions, auth_users_view>>
  /\ UNCHANGED nonRbacVars

\* IF EXISTS (SELECT 1 FROM auth.users WHERE email = v_email): the name email
\* is both a column of auth.users and an output column of the function.
\* Under variable_conflict = error the statement raises; under use_column it
\* reads the column; under use_variable it reads the (NULL) output variable.
UserExistsCheck(v_email) ==
  CASE variable_conflict = "error" -> "raise"
    [] variable_conflict = "use_column" ->
         IF \E u \in UserIds : auth_users[u].email = v_email
         THEN "exists" ELSE "absent"
    [] variable_conflict = "use_variable" -> "absent"

BulkRow(email, status, message) ==
  [email |-> email, status |-> status, message |-> message]

\* The FOREACH loop of bulk_create_users: each email is processed in its own
\* BEGIN ... EXCEPTION WHEN others block.
RECURSIVE BulkLoop(_, _, _, _)
BulkLoop(invs, emails, caller, roles) ==
  IF emails = <<>>
  THEN [invs |-> invs, rows |-> <<>>]
  ELSE LET v_email == Head(emails)
           check == UserExistsCheck(v_email)
           v_invitation == NewInvitation(invs, v_email, caller, roles)
           step ==
             IF check = "raise"
             THEN [invs |-> invs,
                   row |-> BulkRow(v_email, "error", AmbiguousEmail)]
             ELSE IF check = "exists"
             THEN [invs |-> invs,
                   row |-> BulkRow(v_email, "error", "User already exists")]
             ELSE IF v_email = NULL
             THEN [invs |-> invs,
                   row |-> BulkRow(v_email, "error", NotNullEmail)]
             ELSE [invs |-> invs \cup {v_invitation},
                   row |-> BulkRow(v_email, "success", "Invitation sent")]
           rest == BulkLoop(step.invs, Tail(emails), caller, roles)
       IN [invs |-> rest.invs, rows |-> <<step.row>> \o rest.rows]

\* bulk_create_users(user_emails, user_roles)
bulk_create_users(caller, emails, roles) ==
  /\ Cardinality(user_invitations) + Len(emails) <= MaxInvitations
  /\ IF ~has_admin_access(caller)
     THEN /\ result' = BatchOutcome("bulk_create_users", caller, "error",
                                    AccessDenied)
          /\ UNCHANGED user_invitations
     ELSE LET loop == BulkLoop(user_invitations, emails, caller, roles)
          IN /\ user_invitations' = loop.invs
             /\ result' =
                  [BatchOutcome("bulk_create_users", caller, "ok", NULL)
                     EXCEPT !.rows = loop.rows]
  /\ UNCHANGED <<now, variable_conflict, auth_users, user_roles,
                 role_transitions, auth_users_view>>
  /\ UNCHANGED nonRbacVars

\* INSERT INTO user_roles ... SELECT FROM unnest(roles) JOIN roles: one row
\* per listed name that is a row of roles, added in order; a row that
\* violates UNIQUE(user_id, role_id) fails the statement.
RECURSIVE GrantRoles(_, _, _)
GrantRoles(B, user_id, names) ==
  IF names = <<>>
  THEN [ok |-> TRUE, rows |-> B]
  ELSE LET role_name == Head(names)
           row == UserRoleRow(user_id, role_name, TRUE, NoTime)
       IN IF role_name \notin Roles
          THEN GrantRoles(B, user_id, Tail(names))
          ELSE IF UserRolesUniqueViolation(B, row)
          THEN [ok |-> FALSE, rows |-> B]
          ELSE GrantRoles(B (+) SetToBag({row}), user_id, Tail(names))

\* Ids passed to verify_user_email: the identities and an id of no identity.
VerifyUserInputs == UserIds \cup {"u9"}

\* (SELECT email FROM auth.users WHERE id = user_id): NULL for an unknown id.
EmailOfUser(user_id) ==
  IF user_id \in UserIds THEN auth_users[user_id].email ELSE NULL

\* The SELECT INTO v_invitation without its test of expires_at.
MatchingInvitations_NoExpiry(user_id, verification_token) ==
  {ui \in user_invitations :
     /\ EmailOfUser(user_id) /= NULL
     /\ ui.email = EmailOfUser(user_id)
     /\ ui.invitation_token = verification_token
     /\ ui.status = "pending"}

\* The SELECT INTO v_invitation without its test of status.
MatchingInvitations_AnyStatus(user_id, verification_token) ==
  {ui \in user_invitations :
     /\ EmailOfUser(user_id) /= NULL
     /\ ui.email = EmailOfUser(user_id)
     /\ ui.invitation_token = verification_token
     /\ ui.expires_at > now}

\* Invitations that verify_user_email accepts for (user_id, token); a NULL
\* email compares equal to nothing.
MatchingInvitations(user_id, verification_token) ==
  {ui \in user_invitations :
     /\ EmailOfUser(user_id) /= NULL
     /\ ui.email = EmailOfUser(user_id)
     /\ ui.invitation_token = verification_token
     /\ ui.status = "pending"
     /\ ui.expires_at > now}

\* Acceptance that writes an audit row per granted role.
VerifyTransitions_Audited(user_id, v_invitation) ==
  role_transitions \o
    [k \in 1..Len(v_invitation.roles) |->
       [user_id |-> user_id, old_role_id |-> NULL,
        new_role_id |-> v_invitation.roles[k], changed_by |-> user_id,
        reason |-> "invitation"]]

\* role_transitions after the statements of verify_user_email: none of them
\* writes the table.
VerifyTransitions(user_id, v_invitation) == role_transitions

\* handle_user_verification: does the row trigger refresh the view?
NewlyVerified(old_meta, new_meta) ==
  /\ new_meta.email_verified = "true"
  /\ old_meta.email_verified \in {NULL, "false"}

\* Number of REFRESH MATERIALIZED VIEW runs an UPDATE of one auth.users row
\* causes: one by the statement trigger refresh_auth_users_view_users, and one
\* by the row trigger user_verification_trigger when the row becomes verified.
IdentityUpdateRebuilds(old_meta, new_meta) ==
  1 + (IF NewlyVerified(old_meta, new_meta) THEN 1 ELSE 0)

\* The two UPDATEs kept although the INSERT that follows them failed.
AfterFailedGrant_Partial(invs1, users1) ==
  [invitations |-> invs1, users |-> users1]

\* user_invitations and auth.users after a verify_user_email call whose
\* INSERT INTO user_roles raised: the exception leaves the function and the
\* UPDATEs that ran before it (invs1, users1) are rolled back.
AfterFailedGrant(invs1, users1) ==
  [invitations |-> user_invitations, users |-> auth_users]

\* Outcome of verify_user_email(user_id, verification_token) called by caller.
VerifyOutcome(caller, user_id, verification_token, status, message, value) ==
  [Outcome("verify_user_email", status, message)
     EXCEPT !.args = <<user_id, verification_token, caller>>,
            !.value = value]

\* verify_user_email(user_id, verification_token).  okU, okV and okR are the
\* outcomes of the refreshes run by the statement trigger on auth.users, by
\* the row trigger user_verification_trigger (not caught) and by the
\* statement trigger on user_roles.
verify_user_email(caller, user_id, verification_token, okU, okV, okR) ==
  /\ IF MatchingInvitations(user_id, verification_token) = {}
     THEN /\ result' = VerifyOutcome(caller, user_id, verification_token,
                                     "ok", NULL, FALSE)
          /\ UNCHANGED <<auth_users, user_roles, user_invitations,
                         role_transitions, auth_users_view>>
     ELSE \E v_invitation \in MatchingInvitations(user_id, verification_token) :
            LET invs1 == (user_invitations \ {v_invitation}) \cup
                           {[v_invitation EXCEPT !.status = "accepted"]}
                users1 == [auth_users EXCEPT
                             ![user_id].meta.email_verified = "true"]
                fired == NewlyVerified(auth_users[user_id].meta,
                                       users1[user_id].meta)
                view1 == Refreshed(okU, auth_users_view, users1, user_roles,
                                   invs1)
                view2 == IF fired
                         THEN Refreshed(okV, view1, users1, user_roles, invs1)
                         ELSE view1
                grant == GrantRoles(user_roles, user_id, v_invitation.roles)
                view3 == Refreshed(okR, view2, users1, grant.rows, invs1)
            IN IF fired /\ ~okV
               THEN /\ result' = VerifyOutcome(caller, user_id, verification_token,
                                               "error", RefreshFailed, FALSE)
                    /\ UNCHANGED <<auth_users, user_roles, user_invitations,
                                   role_transitions, auth_users_view>>
               ELSE IF ~grant.ok
               THEN /\ result' = VerifyOutcome(caller, user_id, verification_token,
                                               "error", DuplicateKey, FALSE)
                    /\ user_invitations' =
                         AfterFailedGrant(invs1, users1).invitations
                    /\ auth_users' = AfterFailedGrant(invs1, users1).users
                    /\ UNCHANGED <<user_roles, role_transitions,
                                   auth_users_view>>
               ELSE /\ user_invitations' = invs1
                    /\ auth_users' = users1
                    /\ user_roles' = grant.rows
                    /\ role_transitions' =
                         VerifyTransitions(user_id, v_invitation)
                    /\ auth_users_view' = view3
                    /\ result' = VerifyOutcome(caller, user_id, verification_token,
                                               "ok", NULL, TRUE)
  /\ UNCHANGED <<now, variable_conflict>>
  /\ UNCHANGED nonRbacVars

\* ------------------------------------------------------------------------
\* Direct statements on user_invitations under row-level security
\* ------------------------------------------------------------------------

\* The policy without its test: every signed-in caller passes.
InvitationsPolicy_Open(caller) == caller /= NULL

\* Policy "Admins can manage invitations" (FOR ALL, USING only): the caller
\* holds an is_active admin assignment.
InvitationsPolicy(caller) ==
  \E ur \in UserRoleRows :
    /\ ur.user_id = caller
    /\ ur.role_id = "admin"
    /\ ur.is_active = TRUE

\* Outcome of a statement on user_invitations issued by caller.
InvitationOutcome(op, caller, status, message) ==
  [Outcome(op, status, message) EXCEPT !.args = <<caller>>]

\* INSERT INTO user_invitations (email, roles, invitation_token, invited_by)
\* as the bulk screen issues it; no trigger refreshes the view.
Invitations_Insert(caller, email, roles) ==
  /\ Cardinality(user_invitations) < MaxInvitations
  /\ IF ~InvitationsPolicy(caller)
     THEN /\ result' = InvitationOutcome("insert_invitation", caller, "error",
                                         RlsViolation)
          /\ UNCHANGED user_invitations
     ELSE /\ user_invitations' =
               user_invitations \cup
                 {NewInvitation(user_invitations, email, caller, roles)}
          /\ result' = InvitationOutcome("insert_invitation", caller, "ok",
                                         NULL)
  /\ UNCHANGED <<now, variable_conflict, auth_users, user_roles,
                 role_transitions, auth_users_view>>
  /\ UNCHANGED nonRbacVars

\* UPDATE user_invitations SET roles, status WHERE invitation_token = token:
\* only rows the policy lets the caller see are updated.
Invitations_Update(caller, token, roles, status) ==
  LET hit == IF InvitationsPolicy(caller)
             THEN {ui \in user_invitations : ui.invitation_token = token}
             ELSE {}
  IN /\ user_invitations' =
          (user_invitations \ hit) \cup
            {[ui EXCEPT !.roles = roles, !.status = status] : ui \in hit}
     /\ result' = InvitationOutcome("update_invitation", caller, "ok", NULL)
     /\ UNCHANGED <<now, variable_conflict, auth_users, user_roles,
                    role_transitions, auth_users_view>>
     /\ UNCHANGED nonRbacVars

\* DELETE FROM user_invitations WHERE invitation_token = token, under the
\* same policy.
Invitations_Delete(caller, token) ==
  LET hit == IF InvitationsPolicy(caller)
             THEN {ui \in user_invitations : ui.invitation_token = token}
             ELSE {}
  IN /\ user_invitations' = user_invitations \ hit
     /\ result' = InvitationOutcome("delete_invitation", caller, "ok", NULL)
     /\ UNCHANGED <<now, variable_conflict, auth_users, user_roles,
                    role_transitions, auth_users_view>>
     /\ UNCHANGED nonRbacVars

\* ------------------------------------------------------------------------
\* verify_user_email, statement by statement
\* ------------------------------------------------------------------------

\* No call in flight in a session.
NoCall == [pc |-> "idle", caller |-> NULL, user_id |-> NULL, token |-> 0,
           v_invitation |-> {}]

\* SELECT * INTO v_invitation ... ; IF FOUND: the row is read without a
\* lock.  Not found returns false at once.
VerifyUserEmail_Select(s, caller, user_id, verification_token) ==
  /\ verify_call[s].pc = "idle"
  /\ IF MatchingInvitations(user_id, verification_token) = {}
     THEN /\ result' = VerifyOutcome(caller, user_id, verification_token,
                                     "ok", NULL, FALSE)
          /\ UNCHANGED verify_call
     ELSE \E v \in MatchingInvitations(user_id, verification_token) :
            /\ verify_call' =
                 [verify_call EXCEPT ![s] =
                    [pc |-> "found", caller |-> caller, user_id |-> user_id,
                     token |-> verification_token, v_invitation |-> {v}]]
            /\ result' = [Outcome("select_invitation", "ok", NULL)
                            EXCEPT !.args = <<user_id, verification_token,
                                              caller>>]
  /\ UNCHANGED <<now, variable_conflict, auth_users, user_roles,
                 role_transitions, user_invitations, auth_users_view>>
  /\ UNCHANGED <<verseVars, editorVars>>

\* The statements after IF FOUND up to the commit.  The UPDATE of
\* user_invitations takes the lock of the row with v_invitation.id, so the
\* rest of a concurrent call runs after this one's commit; it updates the
\* row as it is then, whatever its status.
VerifyUserEmail_Apply(s, okU, okV, okR) ==
  /\ verify_call[s].pc = "found"
  /\ LET caller == verify_call[s].caller
         user_id == verify_call[s].user_id
         verification_token == verify_call[s].token
         v_invitation == CHOOSE v \in verify_call[s].v_invitation : TRUE
         hit == {ui \in user_invitations :
                   ui.invitation_token = v_invitation.invitation_token}
         invs1 == (user_invitations \ hit) \cup
                    {[ui EXCEPT !.status = "accepted"] : ui \in hit}
         users1 == [auth_users EXCEPT
                      ![user_id].meta.email_verified = "true"]
         fired == NewlyVerified(auth_users[user_id].meta,
                                users1[user_id].meta)
         view1 == Refreshed(okU, auth_users_view, users1, user_roles, invs1)
         view2 == IF fired
                  THEN Refreshed(okV, view1, users1, user_roles, invs1)
                  ELSE view1
         grant == GrantRoles(user_roles, user_id, v_invitation.roles)
         view3 == Refreshed(okR, view2, users1, grant.rows, invs1)
     IN IF fired /\ ~okV
        THEN /\ result' = VerifyOutcome(caller, user_id, verification_token,
                                        "error", RefreshFailed, FALSE)
             /\ UNCHANGED <<auth_users, user_roles, user_invitations,
                            role_transitions, auth_users_view>>
        ELSE IF ~grant.ok
        THEN /\ result' = VerifyOutcome(caller, user_id, verification_token,
                                        "error", DuplicateKey, FALSE)
             /\ user_invitations' =
                  AfterFailedGrant(invs1, users1).invitations
             /\ auth_users' = AfterFailedGrant(invs1, users1).users
             /\ UNCHANGED <<user_roles, role_transitions, auth_users_view>>
        ELSE /\ user_invitations' = invs1
             /\ auth_users' = users1
             /\ user_roles' = grant.rows
             /\ role_transitions' = VerifyTransitions(user_id, v_invitation)
             /\ auth_users_view' = view3
             /\ result' = VerifyOutcome(caller, user_id, verification_token,
                                        "ok", NULL, TRUE)
  /\ verify_call' = [verify_call EXCEPT ![s] = NoCall]
  /\ UNCHANGED <<now, variable_conflict>>
  /\ UNCHANGED <<verseVars, editorVars>>

\* ------------------------------------------------------------------------
\* The chapter editor
\* ------------------------------------------------------------------------

\* Texts typed into a field: blanks, and two texts.
FieldValues == {" ", "a", "b"}

Fields == {"title", "content"}

\* String.prototype.trim on the texts of FieldValues.
trim(v) == IF v = " " THEN "" ELSE v

\* validateForm: the error it sets, NULL when the form is valid.
validateForm(data) ==
  IF trim(data.title) = "" THEN "Title is required"
  ELSE IF trim(data.content) = "" THEN "Content is required"
  ELSE NULL

\* handleFieldChange(field, value)
handleFieldChange(field, value) ==
  /\ formData' = [formData EXCEPT ![field] = value]
  /\ hasUnsavedChanges' = TRUE
  /\ error' = NULL
  /\ UNCHANGED <<chapter_row, saving, saves>>
  /\ UNCHANGED <<verseVars, rbacVars, verifyVars>>

\* handleSave(isAutosave) up to its await: the save button is enabled when
\* nothing is being saved and the form is dirty; the autosave timer runs
\* while the form is dirty.  The request carries the form as it is now.
handleSave_Start(isAutosave) ==
  /\ hasUnsavedChanges
  /\ ~isAutosave => ~saving
  /\ IF validateForm(formData) /= NULL
     THEN /\ error' = validateForm(formData)
          /\ UNCHANGED <<saving, saves>>
     ELSE /\ Len(saves) < MaxSaves
          /\ saving' = TRUE
          /\ error' = NULL
          /\ saves' = Append(saves, [data |-> formData,
                                     isAutosave |-> isAutosave])
  /\ UNCHANGED <<formData, chapter_row, hasUnsavedChanges>>
  /\ UNCHANGED <<verseVars, rbacVars, verifyVars>>

\* handleSave after its await, for the i-th request in flight: the database
\* has written the row and answers (setHasUnsavedChanges(false)), or has
\* failed.
handleSave_Done(i, ok) ==
  /\ i \in 1..Len(saves)
  /\ IF ok
     THEN /\ chapter_row' = saves[i].data
          /\ hasUnsavedChanges' = FALSE
          /\ UNCHANGED error
     ELSE /\ error' = "Failed to save chapter"
          /\ UNCHANGED <<chapter_row, hasUnsavedChanges>>
  /\ saving' = FALSE
  /\ saves' = [k \in 1..(Len(saves) - 1) |->
                 IF k < i THEN saves[k] ELSE saves[k + 1]]
  /\ UNCHANGED formData
  /\ UNCHANGED <<verseVars, rbacVars, verifyVars>>

\* ------------------------------------------------------------------------
\* Initial state and specifications
\* ------------------------------------------------------------------------

\* No verify_user_email call is in flight; the editor has loaded a chapter.
InitIdle ==
  /\ verify_call = [s \in Sessions |-> NoCall]
  /\ formData = [title |-> "a", content |-> "a"]
  /\ chapter_row = [title |-> "a", content |-> "a"]
  /\ hasUnsavedChanges = FALSE
  /\ saving = FALSE
  /\ error = NULL
  /\ saves = <<>>

InitVerse ==
  /\ bible_verses \in SUBSET VersePool
  /\ verse_history = [k \in UserIds \X AllVerses |-> 0]
  /\ uid = [c \in Sessions |-> NULL]
  /\ pc = [c \in Sessions |-> "idle"]
  /\ selected = [c \in Sessions |-> NULL]
  /\ snap = [c \in Sessions |-> {}]
  /\ del = [c \in Sessions |-> {}]
  /\ ret = [c \in Sessions |-> NoRet]
  /\ shown = [u \in UserIds |-> {}]
  /\ served = [u \in UserIds |-> 0]

\* After the migrations: the four roles are seeded, sam holds the active admin
\* assignment with its audit row, the view has been created from the tables.
InitRbac ==
  /\ now = 0
  /\ auth_users =
       [u \in UserIds |->
          [email |-> IF u = "u1" THEN SamEmail ELSE "u2@x.com",
           meta |-> [email_verified |-> NULL, is_active |-> NULL]]]
  /\ user_roles = SetToBag({UserRoleRow("u1", "admin", TRUE, NoTime)})
  /\ role_transitions = <<AssignRole_Transition("u1", "admin")>>
  /\ user_invitations = {}
  /\ auth_users_view = ViewQuery(auth_users, user_roles, user_invitations)
  /\ result = Outcome("none", "none", NULL)

\* plpgsql.variable_conflict is "error" unless the server is configured
\* otherwise.
Init ==
  /\ InitVerse
  /\ InitIdle
  /\ InitRbac
  /\ variable_conflict = "error"

\* The verse set as seeded by the migration.
InitSeeded ==
  /\ Init
  /\ bible_verses = VersePool

\* Role administration: the directory is read by anyone, the statements on
\* user_roles are issued by signed-in callers; an UPDATE deactivates.
NextRoles ==
  \/ Tick
  \/ \E c \in Callers : get_users(c)
  \/ \E c \in UserIds, u \in UserIds, r \in RoleInputs,
        ae \in AssignmentInputs, ok \in BOOLEAN :
       UserRoles_Insert(c, u, r, ae[1], ae[2], ok)
  \/ \E c \in UserIds, u \in UserIds, r \in RoleInputs, ok \in BOOLEAN :
       UserRoles_Update(c, u, r, FALSE, NoTime, ok)
  \/ \E c \in UserIds, u \in UserIds, r \in RoleInputs, ok \in BOOLEAN :
       UserRoles_Delete(c, u, r, ok)
  \/ \E ok1, ok2 \in BOOLEAN : AssignAdminRole(ok1, ok2)

SpecRoles == InitSeeded /\ [][NextRoles]_vars

\* Any setting of plpgsql.variable_conflict.
InitInvite ==
  /\ InitVerse
  /\ InitIdle
  /\ InitRbac
  /\ bible_verses = VersePool
  /\ variable_conflict \in {"error", "use_column", "use_variable"}

\* The batch procedures that create invitations.
NextInvite ==
  \/ \E c \in Callers, emails \in EmailListInputs, roles \in RoleListInputs :
       invite_users(c, emails, roles)
  \/ \E c \in Callers, emails \in EmailListInputs, roles \in RoleListInputs :
       bulk_create_users(c, emails, roles)

SpecInvite == InitInvite /\ [][NextInvite]_vars

\* Role lists of the invitations whose acceptance is followed: a single role,
\* and a role named twice.
GrantListInputs == {<<"user">>, <<"staff", "staff">>}

\* Tokens of the invitations created so far.
IssuedTokens == {ui.invitation_token : ui \in user_invitations}

\* Role grants by signed-in callers: by an administrator's INSERT, and by
\* accepting an invitation (the two statement-trigger refreshes of one
\* acceptance fare alike).
NextGrant ==
  \/ \E c \in UserIds, u \in UserIds, roles \in GrantListInputs :
       invite_users(c, <<auth_users[u].email>>, roles)
  \/ \E u \in UserIds, t \in IssuedTokens \cup {0}, okS, okV \in BOOLEAN :
       verify_user_email(u, u, t, okS, okV, okS)
  \/ \E c \in UserIds, u \in UserIds, ae \in AssignmentInputs,
        ok \in BOOLEAN :
       UserRoles_Insert(c, u, "user", ae[1], ae[2], ok)

SpecGrant == InitSeeded /\ [][NextGrant]_vars

\* Role lists of the invitations whose life is followed: the default, and a
\* list with a name of the admin screen that is no row of roles.
AcceptListInputs == {<<"user">>, <<"user", "editor">>}

\* The life of an invitation: created for the email of an identity, accepted
\* or left to expire.
NextAccept ==
  \/ Tick
  \/ \E c \in Callers, u \in UserIds, roles \in AcceptListInputs :
       invite_users(c, <<auth_users[u].email>>, roles)
  \/ \E c \in UserIds, u \in VerifyUserInputs, t \in IssuedTokens \cup {0},
        okU, okV, okR \in BOOLEAN :
       (u \in UserIds => c = u) /\ verify_user_email(c, u, t, okU, okV, okR)

SpecAccept == InitSeeded /\ [][NextAccept]_vars

\* Values of the is_active key of an identity's metadata: absent, 'true',
\* 'false'.
MetaFlagInputs == {NULL, "true", "false"}

\* The second identity's metadata carries any of the values of is_active.
InitView ==
  /\ InitVerse
  /\ InitIdle
  /\ bible_verses = VersePool
  /\ variable_conflict = "error"
  /\ now = 0
  /\ auth_users \in
       {[u \in UserIds |->
           [email |-> IF u = "u1" THEN SamEmail ELSE "u2@x.com",
            meta |-> [email_verified |-> NULL,
                      is_active |-> IF u = "u1" THEN NULL ELSE f]]]
        : f \in MetaFlagInputs}
  /\ user_roles = SetToBag({UserRoleRow("u1", "admin", TRUE, NoTime)})
  /\ role_transitions = <<AssignRole_Transition("u1", "admin")>>
  /\ user_invitations = {}
  /\ auth_users_view = ViewQuery(auth_users, user_roles, user_invitations)
  /\ result = Outcome("none", "none", NULL)

\* What the projection is built from: role assignments, invitations, time.
NextView ==
  \/ Tick
  \/ \E c \in Callers :
       invite_users(c, <<auth_users["u2"].email>>, <<"user">>)
  \/ \E c \in Callers, u \in UserIds, r \in RoleInputs,
        ae \in AssignmentInputs, ok \in BOOLEAN :
       UserRoles_Insert(c, u, r, ae[1], ae[2], ok)

SpecView == InitView /\ [][NextView]_vars

\* Acceptance called by any signed-in caller for any identity.
NextVerifyCaller ==
  \/ Tick
  \/ \E u \in UserIds :
       invite_users("u1", <<auth_users[u].email>>, <<"user">>)
  \/ \E c \in UserIds, u \in UserIds, t \in IssuedTokens \cup {0},
        okS, okV \in BOOLEAN :
       verify_user_email(c, u, t, okS, okV, okS)

SpecVerifyCaller == InitSeeded /\ [][NextVerifyCaller]_vars

\* Role lists of the invitations two calls compete for: a seeded name, and
\* a name of the admin screen that is no row of roles.
RaceListInputs == {<<"user">>, <<"editor">>}

\* Calls of verify_user_email for one identity interleave statement by
\* statement.
NextVerifyRace ==
  \/ \E roles \in RaceListInputs :
       invite_users("u1", <<auth_users["u2"].email>>, roles)
  \/ \E s \in Sessions, t \in IssuedTokens \cup {0} :
       VerifyUserEmail_Select(s, "u2", "u2", t)
  \/ \E s \in Sessions, okS, okV \in BOOLEAN :
       VerifyUserEmail_Apply(s, okS, okV, okS)

SpecVerifyRace == InitSeeded /\ [][NextVerifyRace]_vars

\* The editor of an existing chapter: fields are edited, the save button is
\* pressed, the autosave timer fires, requests are answered in any order.
NextEditor ==
  \/ \E field \in Fields, value \in FieldValues :
       handleFieldChange(field, value)
  \/ \E isAutosave \in BOOLEAN : handleSave_Start(isAutosave)
  \/ \E i \in 1..MaxSaves, ok \in BOOLEAN : handleSave_Done(i, ok)

SpecEditor == InitSeeded /\ [][NextEditor]_vars

\* The user who tries to become an administrator.
Attacker == "u2"

\* Invitations an administrator may have created before: one for the
\* attacker's email without the admin role, and two naming 'admin' for other
\* emails.
EscalateInvitations ==
  {[email |-> "u2@x.com", invited_by |-> "u1", roles |-> <<"user">>,
    status |-> "pending", invitation_token |-> 1,
    expires_at |-> InvitationTTL],
   [email |-> SamEmail, invited_by |-> "u1", roles |-> <<"admin">>,
    status |-> "pending", invitation_token |-> 2,
    expires_at |-> InvitationTTL],
   [email |-> "new@x.com", invited_by |-> "u1", roles |-> <<"admin">>,
    status |-> "pending", invitation_token |-> 3,
    expires_at |-> InvitationTTL]}

\* Assignments the attacker may hold: none, the user role, a deactivated
\* admin assignment.
EscalateRows ==
  {{}, {UserRoleRow(Attacker, "user", TRUE, NoTime)},
   {UserRoleRow(Attacker, "admin", FALSE, NoTime)}}

\* The attacker holds no is_active admin assignment and no invitation for
\* the attacker's email names 'admin'.
InitEscalate ==
  /\ InitVerse
  /\ InitIdle
  /\ bible_verses = VersePool
  /\ variable_conflict = "error"
  /\ now = 0
  /\ auth_users =
       [u \in UserIds |->
          [email |-> IF u = "u1" THEN SamEmail ELSE "u2@x.com",
           meta |-> [email_verified |-> NULL, is_active |-> NULL]]]
  /\ \E rows \in EscalateRows :
       user_roles =
         SetToBag({UserRoleRow("u1", "admin", TRUE, NoTime)} \cup rows)
  /\ role_transitions = <<AssignRole_Transition("u1", "admin")>>
  /\ user_invitations \in
       {S \in SUBSET EscalateInvitations : Cardinality(S) <= MaxInvitations}
  /\ auth_users_view = ViewQuery(auth_users, user_roles, user_invitations)
  /\ result = Outcome("none", "none", NULL)

\* Role lists the attacker asks for.
EscalateListInputs == {<<"admin">>}

\* Every operation is issued with the attacker as caller.
NextEscalate ==
  \/ Tick
  \/ get_users(Attacker)
  \/ \E roles \in EscalateListInputs :
       invite_users(Attacker, <<auth_users[Attacker].email>>, roles)
  \/ \E roles \in EscalateListInputs :
       bulk_create_users(Attacker, <<auth_users[Attacker].email>>, roles)
  \/ \E u \in VerifyUserInputs, t \in IssuedTokens \cup {0},
        okS, okV \in BOOLEAN :
       verify_user_email(Attacker, u, t, okS, okV, okS)
  \/ \E u \in UserIds, ok \in BOOLEAN :
       UserRoles_Insert(Attacker, u, "admin", TRUE, NoTime, ok)
  \/ \E u \in UserIds, ok \in BOOLEAN :
       UserRoles_Update(Attacker, u, "admin", TRUE, NoTime, ok)
  \/ \E u \in UserIds, ok \in BOOLEAN :
       UserRoles_Delete(Attacker, u, "admin", ok)
  \/ \E roles \in EscalateListInputs :
       Invitations_Insert(Attacker, auth_users[Attacker].email, roles)
  \/ \E t \in IssuedTokens, roles \in EscalateListInputs :
       Invitations_Update(Attacker, t, roles, "pending")
  \/ \E t \in IssuedTokens : Invitations_Delete(Attacker, t)
  \/ GetDailyVerse_Begin(1, Attacker)
  \/ \E c \in Sessions : GetDailyVerse_DeleteStart(c)
  \/ \E c \in Sessions : GetDailyVerse_Reset(c)
  \/ \E c \in Sessions : GetDailyVerse_Insert(c)
  \/ \E c \in Sessions : GetDailyVerse_Return(c)

SpecEscalate == InitEscalate /\ [][NextEscalate]_vars

\* Calls of any session interleave statement by statement.
NextVerse ==
  \/ \E c \in Sessions, u \in UserIds \cup {NULL} : GetDailyVerse_Begin(c, u)
  \/ \E c \in Sessions : GetDailyVerse_DeleteStart(c)
  \/ \E c \in Sessions : GetDailyVerse_Reset(c)
  \/ \E c \in Sessions : GetDailyVerse_Insert(c)
  \/ \E c \in Sessions : GetDailyVerse_Return(c)

SpecVerse == Init /\ [][NextVerse]_vars

\* Calls are issued one after the other: a call starts only when no other
\* call is in flight.
AllIdle == \A c \in Sessions : pc[c] = "idle"

NextVerseSeq ==
  \/ \E c \in Sessions, u \in UserIds \cup {NULL} :
       AllIdle /\ GetDailyVerse_Begin(c, u)
  \/ \E c \in Sessions : GetDailyVerse_DeleteStart(c)
  \/ \E c \in Sessions : GetDailyVerse_Reset(c)
  \/ \E c \in Sessions : GetDailyVerse_Insert(c)
  \/ \E c \in Sessions : GetDailyVerse_Return(c)

SpecVerseSeq == Init /\ [][NextVerseSeq]_vars

\* ------------------------------------------------------------------------
\* Verse rotation: properties
\* ------------------------------------------------------------------------

\* Size of the fixed verse set.
N == Cardinality(bible_verses)

\* Session c has completed a call of user u that returned a verse.
ReturnedTo(c, u) ==
  pc[c] = "done" /\ ret[c].status = "ok" /\ ret[c].user = u

\* C1 - Exhaustion cycle.  Calls are sequential, the verse set has N >= 1
\* verses and the history starts empty.  Every call of an authenticated user
\* succeeds; after the N-th successful call of a user the history holds
\* exactly N rows, one per verse; the (N+1)-th call leaves exactly one row,
\* the verse it returns, and its second SELECT may pick any verse of the set.
C1_ExhaustionCycle ==
  \A u \in UserIds :
    N >= 1 =>
      /\ \A c \in Sessions :
            (pc[c] = "done" /\ ret[c].user = u) => ret[c].status = "ok"
      /\ served[u] = N =>
            /\ HistorySize(u) = N
            /\ \A v \in bible_verses : verse_history[u, v] = 1
      /\ served[u] = N + 1 =>
            /\ HistorySize(u) = 1
            /\ \A c \in Sessions :
                  ReturnedTo(c, u) =>
                    /\ ret[c].reset
                    /\ verse_history[u, ret[c].verse_id] = 1
      /\ \A c \in Sessions :
            (pc[c] = "deleting" /\ uid[c] = u) =>
              \A v \in bible_verses :
                ENABLED (GetDailyVerse_Reset(c) /\ selected'[c] = v)

\* C1 witness: with at least two verses, the (N+1)-th call of a user has
\* reset the history and returned a verse.
C1_Witness ==
  \E u \in UserIds, c \in Sessions :
    /\ N >= 2
    /\ served[u] = N + 1
    /\ ReturnedTo(c, u)
    /\ ret[c].reset
    /\ HistorySize(u) = 1

\* C2 - No duplicate until exhaustion.  With sequential calls, a call that
\* returns a verse without resetting the history returns a verse that no
\* earlier call of the same user returned since that user's last reset.
C2_NoDuplicateInCycle ==
  [][\A c \in Sessions :
       (pc[c] = "insert" /\ pc'[c] = "done" /\ ret'[c].status = "ok"
          /\ ~ret'[c].reset)
         => ret'[c].verse_id \notin shown[uid[c]]]_vars

\* C2 witness: a user has been returned a second verse of the same cycle.
C2_Witness ==
  \E u \in UserIds, c \in Sessions :
    /\ ReturnedTo(c, u)
    /\ ~ret[c].reset
    /\ Cardinality(shown[u]) >= 2

\* Call d is about to insert a verse that it selected as unshown and that
\* another call of the same user has inserted in the meantime.
LostRace(d) ==
  /\ pc[d] = "insert"
  /\ ~ret[d].reset
  /\ verse_history[uid[d], selected[d]] > 0

\* C3 - Verse-history race.  verse_history never holds two rows for one
\* (user_id, verse_id); a call whose selected unshown verse was inserted by
\* a concurrent call of the same user ends with the unique-constraint error
\* as its outcome, without another attempt and without adding a row.
C3_RaceFailsVisibly ==
  [][/\ \A u \in UserIds, v \in AllVerses : verse_history'[u, v] <= 1
     /\ \A d \in Sessions :
          (LostRace(d) /\ pc'[d] /= pc[d]) =>
            /\ pc'[d] = "done"
            /\ ret'[d].status = "error"
            /\ ret'[d].message = DuplicateKey
            /\ verse_history' = verse_history
            /\ verse_history'[uid[d], selected[d]] = 1]_vars

\* C3 witness: two calls of one user selected the same unshown verse; one
\* returned it and the other ended with the unique-constraint error.
C3_Witness ==
  \E c, d \in Sessions :
    /\ c /= d
    /\ pc[c] = "done" /\ pc[d] = "done"
    /\ uid[c] = uid[d] /\ selected[c] = selected[d]
    /\ ret[c].status = "ok" /\ ~ret[c].reset
    /\ ret[d].status = "error" /\ ~ret[d].reset
    /\ ret[d].message = DuplicateKey
    /\ verse_history[uid[c], selected[c]] = 1

\* ------------------------------------------------------------------------
\* Access control and role assignment: properties
\* ------------------------------------------------------------------------

\* C4 - Admin gating.  A get_users call by a caller for whom
\* has_admin_access() is false ends with the exception 'Access denied' and
\* carries no directory row; a call by a caller for whom it is true returns
\* every row stored in the directory projection.
C4_AdminGating ==
  [][\A c \in Callers :
       get_users(c) =>
         IF has_admin_access(c)
         THEN /\ result'.status = "ok"
              /\ result'.view_rows = auth_users_view
         ELSE /\ result'.status = "error"
              /\ result'.message = AccessDenied
              /\ result'.view_rows = {}]_vars

\* C4 witness: get_users has been denied while the projection holds rows and
\* some identity is an admin.
C4_Witness ==
  /\ result.op = "get_users"
  /\ result.status = "error"
  /\ result.message = AccessDenied
  /\ auth_users_view /= {}
  /\ \E u \in UserIds : has_admin_access(u)

\* Admin assignments of u that are active.
ActiveAdminRows(u) ==
  {ur \in UserRoleRows :
     ur.user_id = u /\ ur.role_id = "admin" /\ ur.is_active = TRUE}

\* u holds an active admin assignment and each one has expires_at in the past.
OnlyExpiredAdmin(u) ==
  /\ ActiveAdminRows(u) /= {}
  /\ \A ur \in ActiveAdminRows(u) :
       ur.expires_at /= NoTime /\ ur.expires_at <= now

\* C5 - Effective-assignment expiry (as claimed).  For a caller whose only
\* admin assignment is active but has expires_at in the past,
\* has_admin_access() is false, and a get_users call of that caller is
\* rejected.
C5_ExpiredAdminDenied ==
  [][\A u \in UserIds :
       /\ OnlyExpiredAdmin(u)' => ~has_admin_access(u)'
       /\ (OnlyExpiredAdmin(u) /\ get_users(u)) =>
            (result'.status = "error" /\ result'.message = AccessDenied)]_vars

\* Some listed name that is a row of roles is held by user_id already, or is
\* listed twice.
GrantCollides(user_id, names) ==
  \/ \E k \in 1..Len(names) :
       /\ names[k] \in Roles
       /\ PairCount(user_roles, user_id, names[k]) >= 1
  \/ \E k, l \in 1..Len(names) :
       k /= l /\ names[k] = names[l] /\ names[k] \in Roles

\* C6 - Role uniqueness.  user_roles never holds two rows for one
\* (user_id, role_id); an INSERT by an administrator for a pair that has a
\* row, and a verify_user_email call whose role grant names a role the user
\* holds or names a role twice, end with an error and add no row.
C6_RoleUniqueness ==
  [][/\ \A u \in UserIds, r \in Roles : PairCount(user_roles', u, r) <= 1
     /\ (/\ Called("insert_user_role")
         /\ has_role(result'.args[1], "admin")
         /\ PairCount(user_roles, result'.args[2], result'.args[3]) >= 1)
          => /\ result'.status = "error"
             /\ result'.message = DuplicateKey
             /\ user_roles' = user_roles
     /\ (/\ Called("verify_user_email")
         /\ \E ui \in MatchingInvitations(result'.args[1], result'.args[2]) :
              GrantCollides(result'.args[1], ui.roles))
          => /\ result'.status = "error"
             /\ user_roles' = user_roles
             /\ user_invitations' = user_invitations]_vars

\* C6 witness: a verify_user_email call has failed on the unique constraint
\* for a user who holds a role, and the invitation is still pending.
C6_Witness ==
  /\ result.op = "verify_user_email"
  /\ result.status = "error"
  /\ result.message = DuplicateKey
  /\ \E ui \in user_invitations, u \in UserIds :
       /\ ui.status = "pending"
       /\ ui.email = auth_users[u].email
       /\ GrantCollides(u, ui.roles)
  /\ \A u \in UserIds, r \in Roles : PairCount(user_roles, u, r) <= 1

\* Roles of the active assignments of u.
ActiveRoles(u) ==
  {ur.role_id : ur \in {x \in UserRoleRows :
                          x.user_id = u /\ x.is_active = TRUE}}

LastTransition(ts) == ts[Len(ts)]

\* C7 - Audit completeness (as claimed).  A role assignment that succeeds
\* appends exactly one role_transitions row; its new_role_id is the assigned
\* role and its old_role_id is a role that was active for the user just
\* before, NULL only if there was none.
C7_AuditCompleteness ==
  [][\A ok1, ok2 \in BOOLEAN :
       (AssignAdminRole(ok1, ok2) /\ result'.status = "ok") =>
         LET u == UserIdByEmail(SamEmail)
             t == LastTransition(role_transitions')
         IN /\ Len(role_transitions') = Len(role_transitions) + 1
            /\ t.user_id = u
            /\ t.new_role_id = "admin"
            /\ IF ActiveRoles(u) = {}
               THEN t.old_role_id = NULL
               ELSE t.old_role_id \in ActiveRoles(u)]_vars

NewEmail(e) == \A u \in UserIds : auth_users[u].email /= e

\* C9 - Batch partial failure (as claimed).  bulk_create_users called by an
\* admin with one well-formed new email and one malformed email returns one
\* row per email, 'success' for the well-formed one and 'error' for the
\* malformed one, and creates an invitation for the well-formed one only.
C9_BatchPartialFailure ==
  [][\A c \in Callers, emails \in EmailListInputs, roles \in RoleListInputs :
       (/\ bulk_create_users(c, emails, roles)
        /\ has_admin_access(c)
        /\ Len(emails) = 2
        /\ \A k \in 1..2 : emails[k] /= NULL /\ NewEmail(emails[k])
        /\ \E k \in 1..2 : emailRegex(emails[k])
        /\ \E k \in 1..2 : ~emailRegex(emails[k]))
         => /\ Len(result'.rows) = 2
            /\ \A k \in 1..2 :
                 /\ result'.rows[k].email = emails[k]
                 /\ result'.rows[k].status =
                      IF emailRegex(emails[k]) THEN "success" ELSE "error"
                 /\ (\E ui \in user_invitations' \ user_invitations :
                       ui.email = emails[k]) <=> emailRegex(emails[k])]_vars

\* C10 - Per-email isolation in invite_users (as claimed).  When an admin
\* calls invite_users and the insert for one email fails, an invitation is
\* still created and returned for every other email of the call.
C10_PerEmailIsolation ==
  [][\A c \in Callers, emails \in EmailListInputs, roles \in RoleListInputs :
       (invite_users(c, emails, roles) /\ has_admin_access(c)) =>
         \A k \in 1..Len(emails) :
           emails[k] /= NULL =>
             /\ \E ui \in user_invitations' \ user_invitations :
                  ui.email = emails[k]
             /\ \E j \in 1..Len(result'.rows) :
                  result'.rows[j].email = emails[k]]_vars

\* C11 - Fail-fast authorization for batch operations.  invite_users and
\* bulk_create_users called by an identity without an active admin
\* assignment end with the exception 'Access denied', return no row and
\* leave user_invitations and every other table as they were.
C11_FailFast ==
  [][(/\ Called("invite_users") \/ Called("bulk_create_users")
      /\ ActiveAdminRows(result'.args[1]) = {})
       => /\ result'.status = "error"
          /\ result'.message = AccessDenied
          /\ result'.rows = <<>>
          /\ UNCHANGED <<user_invitations, auth_users, user_roles,
                         role_transitions, auth_users_view, verse_history,
                         bible_verses>>]_vars

\* C11 witness: a batch call has been rejected while invitations exist.
C11_Witness ==
  /\ result.op \in {"invite_users", "bulk_create_users"}
  /\ result.status = "error"
  /\ result.message = AccessDenied
  /\ user_invitations /= {}

\* C12 - Existing identity in a bulk invitation (as claimed).  For every
\* email of a batch for which an identity exists, no user_invitations row is
\* created; bulk_create_users reports the item with status 'error', and
\* invite_users does not return an invitation for it.
C12_ExistingIdentityReported ==
  [][\A c \in Callers, emails \in EmailListInputs, roles \in RoleListInputs :
       \A k \in 1..Len(emails) :
         (has_admin_access(c) /\ emails[k] /= NULL /\ ~NewEmail(emails[k])) =>
           /\ bulk_create_users(c, emails, roles) =>
                /\ Len(result'.rows) = Len(emails)
                /\ result'.rows[k].email = emails[k]
                /\ result'.rows[k].status = "error"
                /\ \A ui \in user_invitations' \ user_invitations :
                     ui.email /= emails[k]
           /\ invite_users(c, emails, roles) =>
                /\ \A j \in 1..Len(result'.rows) :
                     result'.rows[j].email /= emails[k]
                /\ \A ui \in user_invitations' \ user_invitations :
                     ui.email /= emails[k]]_vars

\* ------------------------------------------------------------------------
\* Invitation acceptance: properties
\* ------------------------------------------------------------------------

\* Some invitation has the email of identity u and token t, is pending and
\* has not expired.
PendingUnexpired(u, t) ==
  /\ u \in UserIds
  /\ \E ui \in user_invitations :
       /\ ui.email = auth_users[u].email
       /\ ui.invitation_token = t
       /\ ui.status = "pending"
       /\ ui.expires_at > now

C14_GrantsEveryRole ==
  [][(Called("verify_user_email") /\ result'.value = TRUE) =>
       LET u == result'.args[1]
           t == result'.args[2]
       IN \A ui \in MatchingInvitations(u, t) :
            /\ [ui EXCEPT !.status = "accepted"] \in user_invitations'
            /\ auth_users'[u].meta.email_verified = "true"
            /\ \A k \in 1..Len(ui.roles) :
                 \E ur \in UserRoleRows' :
                   /\ ur.user_id = u
                   /\ ur.role_id = ui.roles[k]
                   /\ ur.is_active = TRUE]_vars

\* C15 - Invitation-driven grants are not audited.  A verify_user_email
\* call, whether it returns true, returns false or raises, and however many
\* roles it grants, leaves role_transitions as it was.
C15_AcceptanceNotAudited ==
  [][Called("verify_user_email") =>
       role_transitions' = role_transitions]_vars

\* C15 witness: an acceptance has granted a role to a user for whom
\* role_transitions holds no row.
C15_Witness ==
  /\ result.op = "verify_user_email"
  /\ result.value = TRUE
  /\ \E ur \in UserRoleRows :
       /\ ur.user_id = result.args[1]
       /\ ur.is_active = TRUE
       /\ \A k \in 1..Len(role_transitions) :
            role_transitions[k].user_id /= ur.user_id

\* The invitation with the token of ui, one step later.
SameInvitation(ui, uj) ==
  /\ uj.invitation_token = ui.invitation_token
  /\ uj.email = ui.email
  /\ uj.roles = ui.roles
  /\ uj.expires_at = ui.expires_at

\* C16 - Invitation status lifecycle.  Every invitation stays in the table;
\* its status changes only from 'pending' to 'accepted', only in a
\* verify_user_email call that returns true and only while expires_at is in
\* the future; no status is ever 'expired', so an invitation whose
\* expires_at has passed stays 'pending'.
C16_StatusLifecycle ==
  [][/\ \A ui \in user_invitations' : ui.status \in {"pending", "accepted"}
     /\ \A ui \in user_invitations :
          \E uj \in user_invitations' :
            /\ SameInvitation(ui, uj)
            /\ \/ uj.status = ui.status
               \/ /\ ui.status = "pending"
                  /\ uj.status = "accepted"
                  /\ ui.expires_at > now
                  /\ Called("verify_user_email")
                  /\ result'.value = TRUE
                  /\ result'.args[2] = ui.invitation_token]_vars

\* C16 witness: a verify_user_email call with the token of a pending
\* invitation past its expires_at has returned false.
C16_Witness ==
  /\ result.op = "verify_user_email"
  /\ result.status = "ok"
  /\ result.value = FALSE
  /\ \E ui \in user_invitations :
       /\ ui.status = "pending"
       /\ ui.expires_at <= now
       /\ ui.invitation_token = result.args[2]
       /\ ui.email = EmailOfUser(result.args[1])

\* C19 - Projection rebuild failure is non-fatal (as claimed).  Whether or
\* not the rebuild of the projection fails, an administrator's INSERT into
\* user_roles for a new pair commits without error, and a verify_user_email
\* call that finds its invitation and whose grant collides with no held role
\* commits its writes and returns true.
C19_RebuildNonFatal ==
  [][/\ (/\ Called("insert_user_role")
         /\ has_role(result'.args[1], "admin")
         /\ PairCount(user_roles, result'.args[2], result'.args[3]) = 0)
          => /\ result'.status = "ok"
             /\ PairCount(user_roles', result'.args[2], result'.args[3]) = 1
     /\ (/\ Called("verify_user_email")
         /\ MatchingInvitations(result'.args[1], result'.args[2]) /= {}
         /\ \A ui \in MatchingInvitations(result'.args[1], result'.args[2]) :
              ~GrantCollides(result'.args[1], ui.roles))
          => /\ result'.status = "ok"
             /\ result'.value = TRUE
             /\ auth_users'[result'.args[1]].meta.email_verified = "true"]_vars

\* ------------------------------------------------------------------------
\* The directory projection: properties
\* ------------------------------------------------------------------------

\* Names of the roles of the is_active assignments of u.
ActiveRoleNames(u) ==
  {r \in Roles : \E ur \in UserRoleRows :
     ur.user_id = u /\ ur.role_id = r /\ ur.is_active = TRUE}

\* C17 - Directory projection shape.  A rebuilt projection has exactly one
\* entry per identity and no other entry; the entry's roles field is the set
\* of names of the user's is_active assignments, and its is_active field is
\* false exactly when the identity's metadata flag is_active is 'false'.
C17_ProjectionShape ==
  /\ \A e \in FreshView : e.id \in UserIds
  /\ \A u \in UserIds :
       /\ Cardinality({e \in FreshView : e.id = u}) = 1
       /\ \A e \in FreshView :
            e.id = u =>
              /\ e.roles = ActiveRoleNames(u)
              /\ e.is_active = (auth_users[u].meta.is_active /= "false")

\* C17 witness: the stored projection is freshly rebuilt; it lists an
\* identity that holds only an inactive assignment, with no role and
\* is_active false, and an identity with is_active true.
C17_Witness ==
  /\ auth_users_view = FreshView
  /\ \E u \in UserIds :
       /\ \E ur \in UserRoleRows : ur.user_id = u
       /\ \A ur \in UserRoleRows : ur.user_id = u => ur.is_active = FALSE
       /\ auth_users[u].meta.is_active = "false"
       /\ \E e \in auth_users_view :
            e.id = u /\ e.roles = {} /\ e.is_active = FALSE
  /\ \E e \in auth_users_view : e.is_active = TRUE /\ e.roles /= {}

\* C18 - has_pending_invitation counts only non-expired invitations (as
\* claimed).  In a rebuilt projection an identity's has_pending_invitation
\* is true exactly when an invitation for its email is pending and has
\* expires_at in the future.
C18_PendingOnlyUnexpired ==
  \A e \in FreshView :
    e.has_pending_invitation <=>
      \E ui \in user_invitations :
        /\ ui.email = e.email
        /\ ui.status = "pending"
        /\ ui.expires_at > now

\* ------------------------------------------------------------------------
\* get_daily_verse: exceptional conditions
\* ------------------------------------------------------------------------

\* C20 - get_daily_verse raises on exceptional conditions and changes
\* nothing.  A call without an authenticated caller ends in its first step
\* with the exception 'User not authenticated' and touches no table; a call
\* of an authenticated caller while bible_verses is empty ends with the
\* exception 'No verses available'; neither returns a verse text or a null
\* row, and verse_history is left as it was.
C20_RaisesAndChangesNothing ==
  [][\A c \in Sessions :
       /\ (pc[c] = "idle" /\ pc'[c] /= "idle" /\ uid'[c] = NULL) =>
            /\ pc'[c] = "done"
            /\ ret'[c].status = "error"
            /\ ret'[c].message = "User not authenticated"
            /\ ret'[c].verse_text = NULL
            /\ UNCHANGED <<verse_history, bible_verses, snap, del>>
       /\ (pc[c] /= "done" /\ pc'[c] = "done" /\ uid'[c] /= NULL
             /\ bible_verses = {}) =>
            /\ ret'[c].status = "error"
            /\ ret'[c].message = "No verses available"
            /\ ret'[c].verse_text = NULL
       /\ bible_verses = {} => verse_history' = verse_history]_vars

\* C20 witness: with no verse in the table, one call has ended with 'No
\* verses available' and another with 'User not authenticated'.
C20_Witness ==
  /\ bible_verses = {}
  /\ \E c, d \in Sessions :
       /\ pc[c] = "done" /\ uid[c] /= NULL
       /\ ret[c].status = "error"
       /\ ret[c].message = "No verses available"
       /\ pc[d] = "done" /\ uid[d] = NULL
       /\ ret[d].status = "error"
       /\ ret[d].message = "User not authenticated"
  /\ \A u \in UserIds : HistorySize(u) = 0

\* C21 - Verse-rotation failures reach the caller as errors (as claimed).
\* When a get_daily_verse call ends with an exception (no authenticated
\* caller, no verses, unique-constraint violation), the client's
\* getDailyVerse() does not resolve to null.
C21_FailureNotNull ==
  [][\A c \in Sessions :
       (pc[c] /= "done" /\ pc'[c] = "done" /\ ret'[c].status = "error") =>
         getDailyVerse(ret'[c]) /= NULL]_vars

\* ------------------------------------------------------------------------
\* get_daily_verse: independence of the users' cycles
\* ------------------------------------------------------------------------

\* Verses for which user u has no history row.
OwnUnshown(u) == {v \in bible_verses : verse_history[u, v] = 0}

\* C22 - Independent per-user cycles.  A step of a get_daily_verse call of
\* user A, the reset of A's history included, leaves every verse_history
\* row of every other user as it was; the verse the call selects is one A
\* has no row for (any verse after a reset), and each of them can be
\* selected whatever the rows of other users are.
C22_IndependentCycles ==
  [][\A c \in Sessions :
       /\ pc'[c] /= pc[c] =>
            \A w \in UserIds, v \in AllVerses :
              w /= (IF pc[c] = "idle" THEN uid'[c] ELSE uid[c]) =>
                verse_history'[w, v] = verse_history[w, v]
       /\ \A u \in UserIds :
            (pc[c] = "idle" /\ pc'[c] /= "idle" /\ uid'[c] = u) =>
              /\ IF OwnUnshown(u) = {}
                 THEN pc'[c] = "reset"
                 ELSE pc'[c] = "insert" /\ selected'[c] \in OwnUnshown(u)
              /\ \A v \in OwnUnshown(u) :
                   ENABLED (GetDailyVerse_Begin(c, u) /\ selected'[c] = v)
       /\ (pc[c] = "deleting" /\ pc'[c] = "insert") =>
            \A v \in bible_verses :
              ENABLED (GetDailyVerse_Reset(c) /\ selected'[c] = v)]_vars

\* C22 witness: a call of one user has reset that user's history and
\* returned a verse while another user holds two history rows.
C22_Witness ==
  \E c \in Sessions, w \in UserIds :
    /\ pc[c] = "done"
    /\ ret[c].status = "ok"
    /\ ret[c].reset
    /\ w /= ret[c].user
    /\ HistorySize(ret[c].user) = 1
    /\ HistorySize(w) >= 2

\* ------------------------------------------------------------------------
\* The directory projection: refreshes
\* ------------------------------------------------------------------------

\* C23 - Eventual consistency of the directory (as claimed).  After a
\* committed write that changes what the projection should show - a role
\* assignment or a pending invitation - and whose refresh, if the statement
\* runs one, has succeeded, the stored projection that get_users returns to
\* an admin is the one computed from the current base tables.
C23_DirectoryCatchesUp ==
  [][/\ \A c \in Callers, u \in UserIds, r \in RoleInputs,
           ae \in AssignmentInputs :
          (/\ UserRoles_Insert(c, u, r, ae[1], ae[2], TRUE)
           /\ FreshView' /= FreshView)
            => /\ auth_users_view' = FreshView'
               /\ \A a \in UserIds :
                    has_admin_access(a)' =>
                      get_users_result(a)'.view_rows = FreshView'
     /\ \A c \in Callers :
          (/\ invite_users(c, <<auth_users["u2"].email>>, <<"user">>)
           /\ FreshView' /= FreshView)
            => /\ auth_users_view' = FreshView'
               /\ \A a \in UserIds :
                    has_admin_access(a)' =>
                      get_users_result(a)'.view_rows = FreshView']_vars

\* C24 - One rebuild per statement (as claimed).  The UPDATE of the identity
\* row issued by a verify_user_email call that returns true causes exactly
\* one rebuild of the directory projection.
C24_OneRebuildPerStatement ==
  [][(Called("verify_user_email") /\ result'.value = TRUE) =>
       IdentityUpdateRebuilds(auth_users[result'.args[1]].meta,
                              auth_users'[result'.args[1]].meta) = 1]_vars

\* ------------------------------------------------------------------------
\* The two admin predicates
\* ------------------------------------------------------------------------

\* C25 - The two admin predicates agree (as claimed).  In every reachable
\* state and for every user u, has_admin_access() evaluated with u as caller
\* equals has_role(u, 'admin').
C25_PredicatesAgree ==
  \A u \in UserIds : has_admin_access(u) <=> has_role(u, "admin")

\* ------------------------------------------------------------------------
\* Escalation
\* ------------------------------------------------------------------------

\* C26 - No self-escalation to admin.  From a state in which the user holds
\* no is_active admin assignment and no invitation for the user's email
\* names 'admin', no sequence of operations issued with that user as caller
\* reaches a state in which has_admin_access() is true for the user; no
\* admin assignment of the user becomes active and no invitation naming
\* 'admin' appears for the user's email.
C26_NoSelfEscalation ==
  /\ ~has_admin_access(Attacker)
  /\ ~has_role(Attacker, "admin")
  /\ \A ui \in user_invitations :
       ui.email = auth_users[Attacker].email =>
         \A k \in 1..Len(ui.roles) : ui.roles[k] /= "admin"

\* C26 witness: the user, who holds a deactivated admin assignment, has
\* accepted the invitation for the user role while an invitation naming
\* 'admin' for another email is pending.
C26_Witness ==
  /\ result.op = "verify_user_email"
  /\ result.value = TRUE
  /\ result.args[1] = Attacker
  /\ \E ur \in UserRoleRows :
       ur.user_id = Attacker /\ ur.role_id = "admin" /\ ur.is_active = FALSE
  /\ \E ur \in UserRoleRows :
       ur.user_id = Attacker /\ ur.role_id = "user" /\ ur.is_active = TRUE
  /\ \E ui \in user_invitations :
       /\ ui.email /= auth_users[Attacker].email
       /\ ui.status = "pending"
       /\ ui.roles = <<"admin">>

\* ------------------------------------------------------------------------
\* verify_user_email: atomicity
\* ------------------------------------------------------------------------

\* C27 - verify_user_email is all-or-nothing.  When the role grant of a call
\* fails on UNIQUE(user_id, role_id) - the user holds one of the invitation's
\* roles, or the list names a role twice - the call raises, the invitation
\* is still 'pending', the identity's metadata is as before and no
\* user_roles row has been added.
C27_AllOrNothing ==
  [][(/\ Called("verify_user_email")
      /\ \E ui \in MatchingInvitations(result'.args[1], result'.args[2]) :
           GrantCollides(result'.args[1], ui.roles))
       => /\ result'.status = "error"
          /\ result'.value = FALSE
          /\ \A ui \in MatchingInvitations(result'.args[1], result'.args[2]) :
               ui \in user_invitations' /\ ui.status = "pending"
          /\ auth_users' = auth_users
          /\ user_roles' = user_roles
          /\ user_invitations' = user_invitations]_vars

\* C27 witness: the call for an invitation that names a role twice has
\* raised; the invitation is pending, the identity is not verified and the
\* user does not hold the role.
C27_Witness ==
  /\ result.op = "verify_user_email"
  /\ result.status = "error"
  /\ result.message = DuplicateKey
  /\ \E ui \in user_invitations :
       /\ ui.invitation_token = result.args[2]
       /\ ui.email = EmailOfUser(result.args[1])
       /\ ui.status = "pending"
       /\ ui.roles = <<"staff", "staff">>
  /\ auth_users[result.args[1]].meta.email_verified /= "true"
  /\ PairCount(user_roles, result.args[1], "staff") = 0

\* C29 - Verification is bound to the verified identity (as claimed).  A
\* verify_user_email(user_id, token) call made by a caller other than the
\* identity user_id returns false and leaves invitations, identities and
\* user_roles as they were.
C29_BoundToCaller ==
  [][(Called("verify_user_email") /\ result'.args[3] /= result'.args[1]) =>
       /\ result'.value = FALSE
       /\ UNCHANGED <<user_invitations, auth_users, user_roles>>]_vars

\* ------------------------------------------------------------------------
\* verify_user_email: concurrent calls
\* ------------------------------------------------------------------------

\* C28 - An invitation token is single-use (as claimed).  Over any
\* interleaving of verify_user_email calls presenting the token of an
\* invitation, a call returns true only while the invitation is still
\* 'pending' - so at most one call returns true - and no role is granted
\* twice.
C28_TokenSingleUse ==
  [][/\ (Called("verify_user_email") /\ result'.value = TRUE) =>
          \E ui \in user_invitations :
            /\ ui.invitation_token = result'.args[2]
            /\ ui.status = "pending"
     /\ \A u \in UserIds, r \in Roles : PairCount(user_roles', u, r) <= 1]_vars

\* ------------------------------------------------------------------------
\* The chapter editor: properties
\* ------------------------------------------------------------------------

\* C30 - Chapter editor dirty flag (as claimed).  Whenever the form differs
\* from the row last persisted, hasUnsavedChanges is true.
C30_DirtyFlag ==
  formData /= chapter_row => hasUnsavedChanges

====
